---- MODULE Spec2Model ----
(***************************************************************************)
(* Product / category request handlers of the inventory backend            *)
(* (productController + productRoutes + the Prisma schema), modelled as    *)
(* requests that interleave at their await points over a shared database   *)
(* and a shared media store.                                               *)
(***************************************************************************)
EXTENDS Integers, Sequences, FiniteSets, TLC

VARIABLES products, categories, links, media, nextImage, now, started, req,
          modal

vars == <<products, categories, links, media, nextImage, now, started, req,
          modal>>

(***************************************************************************)
(* Bounds of the model.                                                    *)
(***************************************************************************)
\* number of requests started in one behaviour
MaxRequests == 3

\* the requests in flight at once
Slots == {1, 2}

(***************************************************************************)
(* Values.                                                                 *)
(***************************************************************************)
\* a field the request does not carry (JavaScript undefined)
UNDEF == "undefined"
\* imageUrl String? : the null of the column
NullUrl == <<>>
\* result of parseFloat / parseInt on something that is no number
NaN == 0 - 1

ProductIds == {"p1", "p2"}
CategoryIds == {"c1", "c2"}

\* req.file: none, a file buffered in memory (buffer, no path), a file
\* stored on disk (path, no buffer)
NoFile == "none"
MemFile == "memory"
DiskFile == "disk"
Files == {NoFile, MemFile, DiskFile}

(***************************************************************************)
(* JavaScript truthiness and number parsing of the body's string fields.   *)
(***************************************************************************)
Falsy(v) == v = UNDEF \/ v = ""

ParseNumber(s) ==
    CASE s = "5" -> 5
      [] s = "7" -> 7
      [] OTHER -> NaN

ParseFloat(s) == ParseNumber(s)
ParseInt(s) == ParseNumber(s)

(***************************************************************************)
(* The media host.  An uploaded object lives under a public id             *)
(* "products/<id>"; its secure URL is a list of '/'-separated segments,    *)
(* each a list of '.'-separated parts.                                     *)
(***************************************************************************)
\* secure_url of the n-th upload: https://res.cloudinary.com/.../products/<n>.jpg
SecureUrl(n) ==
    << <<"res", "cloudinary", "com">>, <<"image">>, <<"upload">>,
       <<"products">>, <<n, "jpg">> >>

\* public id under which upload(..., {folder: 'products'}) stores the n-th object
UploadedPublicId(n) == <<"products", n>>

\* imageUrl.split('/').pop()?.split('.')[0]
PublicIdOf(url) == url[Len(url)][1]

\* `products/${publicId}`
DestroyKey(url) == <<"products", PublicIdOf(url)>>

(***************************************************************************)
(* The database: Products rows, ProductCategory rows and the join table    *)
(* _ProductCategoryToProducts (A = categoryId, B = productId).             *)
(***************************************************************************)
Row(name, price, stockQuantity, imageUrl, createdAt) ==
    [name |-> name, price |-> price, stockQuantity |-> stockQuantity,
     imageUrl |-> imageUrl, createdAt |-> createdAt]

ProductExists(p) == p \in DOMAIN products

\* a lookup that drops its where clause: the first row of the table
FindFirst(p) ==
    IF DOMAIN products = {} THEN <<>>
    ELSE <<products[CHOOSE q \in DOMAIN products : TRUE]>>

\* prisma.products.findUnique({where: {productId}}): <<row>>, or <<>> for null
FindUnique(p) == IF ProductExists(p) THEN <<products[p]>> ELSE <<>>

CategoriesOf(p) == {c \in CategoryIds : <<c, p>> \in links}

\* ON DELETE CASCADE of _ProductCategoryToProducts_B_fkey
CascadeProduct(p) == {l \in links : l[2] # p}

\* a category delete that leaves the join table alone
CascadeCategoryNone(c) == links

\* ON DELETE CASCADE of _ProductCategoryToProducts_A_fkey
CascadeCategory(c) == {l \in links : l[1] # c}

\* prisma.products.create can succeed: the id is given and new, the category
\* to connect exists
CanCreate(p, c) == p # UNDEF /\ ~ProductExists(p) /\ c \in categories

\* a create that writes the row and connects no category
PrismaCreateNoConnect(p, row, c) ==
    /\ products' = [q \in DOMAIN products \cup {p} |->
                        IF q = p THEN row ELSE products[q]]
    /\ UNCHANGED <<links, categories>>

\* prisma.products.create({data: {..., categories: {connect: {categoryId}}}})
PrismaCreate(p, row, c) ==
    /\ products' = [q \in DOMAIN products \cup {p} |->
                        IF q = p THEN row ELSE products[q]]
    /\ links' = links \cup {<<c, p>>}
    /\ UNCHANGED categories

\* prisma.products.update can succeed: the row exists, the category to
\* connect exists
CanUpdate(p, c) == ProductExists(p) /\ c \in categories

\* an update that connects the category and leaves the previous links
PrismaUpdateConnectOnly(p, name, price, stockQuantity, imageUrl, c) ==
    /\ products' = [products EXCEPT ![p] =
                        Row(name, price, stockQuantity, imageUrl, @.createdAt)]
    /\ links' = links \cup {<<c, p>>}
    /\ UNCHANGED categories

\* prisma.products.update({data: {..., categories: {set: [], connect: {categoryId}}}})
PrismaUpdate(p, name, price, stockQuantity, imageUrl, c) ==
    /\ products' = [products EXCEPT ![p] =
                        Row(name, price, stockQuantity, imageUrl, @.createdAt)]
    /\ links' = CascadeProduct(p) \cup {<<c, p>>}
    /\ UNCHANGED categories

\* prisma.products.delete({where: {productId}})
PrismaDelete(p) ==
    /\ products' = [q \in DOMAIN products \ {p} |-> products[q]]
    /\ links' = CascadeProduct(p)
    /\ UNCHANGED categories

(***************************************************************************)
(* The 'image' part of a multipart request, as the client sends it: a mime *)
(* type <<type, subtype>> and a size in bytes.                             *)
(***************************************************************************)
Part(type, subtype, size) == [mimetype |-> <<type, subtype>>, size |-> size]

\* the request carries no 'image' part
NoPart == Part("", "", 0)

(***************************************************************************)
(* The create-product modal of the admin UI: its React state, the place    *)
(* handleSubmit waits at, and what it has done so far.                     *)
(***************************************************************************)
InitialFormData ==
    [name |-> "", price |-> "", stockQuantity |-> "", categoryId |-> "",
     image |-> NoPart]

InitialModal ==
    [formData |-> InitialFormData, error |-> "", isSubmitting |-> FALSE,
     imagePreview |-> FALSE, pc |-> "idle", fetches |-> 0, created |-> 0,
     closed |-> 0]

(***************************************************************************)
(* Requests.  A slot holds one request: its inputs, the handler's locals,  *)
(* the place it waits at (pc), the external calls it has made, and the     *)
(* response once sent (status # 0).                                        *)
(***************************************************************************)
Idle ==
    [op |-> "idle", pc |-> "idle", status |-> 0,
     productId |-> UNDEF, name |-> UNDEF, price |-> UNDEF,
     stockQuantity |-> UNDEF, categoryId |-> UNDEF, file |-> NoFile,
     imageUrl |-> NullUrl, uploaded |-> <<>>, missingFields |-> <<>>,
     calls |-> <<>>, replaced |-> {}, result |-> <<>>, sent |-> NoPart]

Free(r) == req[r].pc = "idle"

\* a response is on its way out: res.json(...) has been called and the
\* handler has returned
Responding == \E q \in Slots : req[q].pc = "done"

\* a new request takes the first slot that holds no request
CanStart(r) ==
    /\ ~Responding
    /\ started < MaxRequests
    /\ Free(r)
    /\ \A q \in Slots : q < r => ~Free(q)

\* request r resumes after the await it waits at
Resumes(r, op, pc) == ~Responding /\ req[r].op = op /\ req[r].pc = pc

Respond(r, rec, code) ==
    req' = [req EXCEPT ![r] = [rec EXCEPT !.pc = "done", !.status = code]]

\* the request has made the external call `what`, which returned (TRUE) or threw
Called(rec, what, returned) == [rec EXCEPT !.calls = Append(@, <<what, returned>>)]

(***************************************************************************)
(* createProduct                                                           *)
(***************************************************************************)
\* the validation without its check of req.file
MissingFieldsNoImage(name, price, stockQuantity, categoryId, file) ==
    (IF Falsy(name) THEN <<"name">> ELSE <<>>)
    \o (IF Falsy(price) THEN <<"price">> ELSE <<>>)
    \o (IF Falsy(stockQuantity) THEN <<"stockQuantity">> ELSE <<>>)
    \o (IF Falsy(categoryId) THEN <<"categoryId">> ELSE <<>>)

\* lines 33-38: the pushes onto missingFields, in order
MissingFields(name, price, stockQuantity, categoryId, file) ==
    (IF Falsy(name) THEN <<"name">> ELSE <<>>)
    \o (IF Falsy(price) THEN <<"price">> ELSE <<>>)
    \o (IF Falsy(stockQuantity) THEN <<"stockQuantity">> ELSE <<>>)
    \o (IF Falsy(categoryId) THEN <<"categoryId">> ELSE <<>>)
    \o (IF file = NoFile THEN <<"image">> ELSE <<>>)

\* Buffer.from(req.file.buffer) throws when the file has no buffer
HasBuffer(file) == file = MemFile

\* createProduct entered on the request `arrived`, up to its first await:
\* validation; the upload is issued
CreateProductEntered(r, arrived, productId, name, price, stockQuantity, categoryId, file) ==
    /\ CanStart(r)
    /\ started' = started + 1
    /\ LET rec == [arrived EXCEPT !.op = "create", !.productId = productId,
                       !.name = name, !.price = price,
                       !.stockQuantity = stockQuantity,
                       !.categoryId = categoryId, !.file = file,
                       !.missingFields = MissingFields(name, price,
                                            stockQuantity, categoryId, file)]
       IN  IF Len(rec.missingFields) > 0
           THEN Respond(r, rec, 400)
           ELSE IF ~HasBuffer(file)
           THEN Respond(r, rec, 500)
           ELSE req' = [req EXCEPT ![r] = [rec EXCEPT !.pc = "upload"]]
    /\ UNCHANGED <<products, categories, links, media, nextImage, now, modal>>

\* the handler called with a request object
CreateProductStart(r, productId, name, price, stockQuantity, categoryId, file) ==
    CreateProductEntered(r, Idle, productId, name, price, stockQuantity,
                         categoryId, file)

\* a createProduct that logs a failed upload and goes on without an image
CreateProductUploadedLenient(r, ok) ==
    /\ Resumes(r, "create", "upload")
    /\ LET rec == Called(req[r], "upload", ok)
       IN  /\ media' = IF ok THEN media \cup {UploadedPublicId(nextImage)} ELSE media
           /\ nextImage' = IF ok THEN nextImage + 1 ELSE nextImage
           /\ req' = [req EXCEPT ![r] =
                  [rec EXCEPT !.pc = "dbcreate",
                      !.uploaded = IF ok THEN UploadedPublicId(nextImage) ELSE <<>>,
                      !.imageUrl = IF ok THEN SecureUrl(nextImage) ELSE NullUrl]]
    /\ UNCHANGED <<products, categories, links, now, modal, started>>

\* cloudinary.uploader.upload returns or throws; then prisma.products.create
\* is issued
CreateProductUploaded(r, ok) ==
    /\ Resumes(r, "create", "upload")
    /\ LET rec == Called(req[r], "upload", ok)
       IN  IF ok
           THEN /\ media' = media \cup {UploadedPublicId(nextImage)}
                /\ nextImage' = nextImage + 1
                /\ req' = [req EXCEPT ![r] =
                              [rec EXCEPT !.pc = "dbcreate",
                                          !.uploaded = UploadedPublicId(nextImage),
                                          !.imageUrl = SecureUrl(nextImage)]]
           ELSE /\ Respond(r, rec, 500)
                /\ UNCHANGED <<media, nextImage>>
    /\ UNCHANGED <<products, categories, links, now, modal, started>>

\* a createProduct that removes the uploaded image when the write fails
CreateProductWrittenCleanup(r, ok) ==
    /\ Resumes(r, "create", "dbcreate")
    /\ LET done == ok /\ CanCreate(req[r].productId, req[r].categoryId)
           rec == Called(req[r], "products.create", done)
       IN  IF done
           THEN /\ PrismaCreate(rec.productId,
                        Row(rec.name, ParseFloat(rec.price),
                            ParseInt(rec.stockQuantity), rec.imageUrl, now),
                        rec.categoryId)
                /\ Respond(r, rec, 201)
                /\ UNCHANGED media
           ELSE /\ Respond(r, rec, 500)
                /\ media' = media \ {rec.uploaded}
                /\ UNCHANGED <<products, categories, links>>
    /\ UNCHANGED <<nextImage, now, modal, started>>

\* prisma.products.create returns or throws
CreateProductWritten(r, ok) ==
    /\ Resumes(r, "create", "dbcreate")
    /\ LET done == ok /\ CanCreate(req[r].productId, req[r].categoryId)
           rec == Called(req[r], "products.create", done)
       IN  IF done
           THEN /\ PrismaCreate(rec.productId,
                        Row(rec.name, ParseFloat(rec.price),
                            ParseInt(rec.stockQuantity), rec.imageUrl, now),
                        rec.categoryId)
                /\ Respond(r, rec, 201)
           ELSE /\ Respond(r, rec, 500)
                /\ UNCHANGED <<products, categories, links>>
    /\ UNCHANGED <<media, nextImage, now, modal, started>>

(***************************************************************************)
(* updateProduct                                                           *)
(***************************************************************************)
\* updateProduct entered on the request `arrived`, up to its first await:
\* prisma.products.findUnique is issued
UpdateProductEntered(r, arrived, productId, name, price, stockQuantity, categoryId, file) ==
    /\ CanStart(r)
    /\ started' = started + 1
    /\ req' = [req EXCEPT ![r] =
                  [arrived EXCEPT !.op = "update", !.pc = "find",
                               !.productId = productId, !.name = name,
                               !.price = price, !.stockQuantity = stockQuantity,
                               !.categoryId = categoryId, !.file = file]]
    /\ UNCHANGED <<products, categories, links, media, nextImage, now, modal>>

\* the handler called with a request object
UpdateProductStart(r, productId, name, price, stockQuantity, categoryId, file) ==
    UpdateProductEntered(r, Idle, productId, name, price, stockQuantity,
                         categoryId, file)

\* lines 123-125: the previous image has a URL and a public id to destroy
HasOldImage(url) == url # NullUrl

\* findUnique returns or throws; 404, or the next call is issued
UpdateProductFound(r, ok) ==
    /\ Resumes(r, "update", "find")
    /\ LET rec == Called(req[r], "products.findUnique", ok)
           existingProduct == FindUnique(rec.productId)
       IN  IF ~ok THEN Respond(r, rec, 500)
           ELSE IF existingProduct = <<>> THEN Respond(r, rec, 404)
           ELSE req' = [req EXCEPT ![r] =
                    [rec EXCEPT !.imageUrl = existingProduct[1].imageUrl,
                                !.pc = IF rec.file = NoFile THEN "dbupdate"
                                       ELSE IF HasOldImage(existingProduct[1].imageUrl)
                                       THEN "destroy" ELSE "upload"]]
    /\ UNCHANGED <<products, categories, links, media, nextImage, now, modal, started>>

\* an updateProduct that swallows a failed destroy, as deleteProduct does
UpdateProductDestroyedLenient(r, ok) ==
    /\ Resumes(r, "update", "destroy")
    /\ LET rec == Called(req[r], "destroy", ok)
       IN  /\ media' = IF ok THEN media \ {DestroyKey(rec.imageUrl)} ELSE media
           /\ req' = [req EXCEPT ![r] = [rec EXCEPT !.pc = "upload"]]
    /\ UNCHANGED <<products, categories, links, nextImage, now, modal, started>>

\* cloudinary.uploader.destroy of the previous image returns or throws
UpdateProductDestroyed(r, ok) ==
    /\ Resumes(r, "update", "destroy")
    /\ LET rec == Called(req[r], "destroy", ok)
       IN  IF ok
           THEN /\ media' = media \ {DestroyKey(rec.imageUrl)}
                /\ req' = [req EXCEPT ![r] = [rec EXCEPT !.pc = "upload"]]
           ELSE /\ Respond(r, rec, 500)
                /\ UNCHANGED media
    /\ UNCHANGED <<products, categories, links, nextImage, now, modal, started>>

\* cloudinary.uploader.upload(req.file.path) needs a path
HasPath(file) == file = DiskFile

\* an updateProduct that tries a failed upload a second time
UpdateProductUploadedRetry(r, ok) ==
    /\ Resumes(r, "update", "upload")
    /\ LET done == ok /\ HasPath(req[r].file)
           rec == Called(req[r], "upload", done)
       IN  IF done
           THEN /\ media' = media \cup {UploadedPublicId(nextImage)}
                /\ nextImage' = nextImage + 1
                /\ req' = [req EXCEPT ![r] =
                              [rec EXCEPT !.pc = "dbupdate",
                                          !.uploaded = UploadedPublicId(nextImage),
                                          !.imageUrl = SecureUrl(nextImage)]]
           ELSE /\ IF <<"upload", FALSE>> \in {req[r].calls[i] :
                                                  i \in 1..Len(req[r].calls)}
                   THEN Respond(r, rec, 500)
                   ELSE req' = [req EXCEPT ![r] = rec]
                /\ UNCHANGED <<media, nextImage>>
    /\ UNCHANGED <<products, categories, links, now, modal, started>>

\* the upload of the new image returns or throws
UpdateProductUploaded(r, ok) ==
    /\ Resumes(r, "update", "upload")
    /\ LET done == ok /\ HasPath(req[r].file)
           rec == Called(req[r], "upload", done)
       IN  IF done
           THEN /\ media' = media \cup {UploadedPublicId(nextImage)}
                /\ nextImage' = nextImage + 1
                /\ req' = [req EXCEPT ![r] =
                              [rec EXCEPT !.pc = "dbupdate",
                                          !.uploaded = UploadedPublicId(nextImage),
                                          !.imageUrl = SecureUrl(nextImage)]]
           ELSE /\ Respond(r, rec, 500)
                /\ UNCHANGED <<media, nextImage>>
    /\ UNCHANGED <<products, categories, links, now, modal, started>>

\* prisma.products.update returns or throws
UpdateProductWritten(r, ok) ==
    /\ Resumes(r, "update", "dbupdate")
    /\ LET done == ok /\ CanUpdate(req[r].productId, req[r].categoryId)
           rec == Called(req[r], "products.update", done)
       IN  IF done
           THEN /\ PrismaUpdate(rec.productId, rec.name, ParseFloat(rec.price),
                        ParseInt(rec.stockQuantity), rec.imageUrl,
                        rec.categoryId)
                /\ Respond(r, [rec EXCEPT !.replaced =
                                   CategoriesOf(rec.productId)], 200)
           ELSE /\ Respond(r, rec, 500)
                /\ UNCHANGED <<products, categories, links>>
    /\ UNCHANGED <<media, nextImage, now, modal, started>>

(***************************************************************************)
(* deleteProduct                                                           *)
(***************************************************************************)
\* the request arrives; prisma.products.findUnique is issued
DeleteProductStart(r, productId) ==
    /\ CanStart(r)
    /\ started' = started + 1
    /\ req' = [req EXCEPT ![r] =
                  [Idle EXCEPT !.op = "delete", !.pc = "find",
                               !.productId = productId]]
    /\ UNCHANGED <<products, categories, links, media, nextImage, now, modal>>

\* findUnique returns or throws; 404, or the next call is issued
DeleteProductFound(r, ok) ==
    /\ Resumes(r, "delete", "find")
    /\ LET rec == Called(req[r], "products.findUnique", ok)
           product == FindUnique(rec.productId)
       IN  IF ~ok THEN Respond(r, rec, 500)
           ELSE IF product = <<>> THEN Respond(r, rec, 404)
           ELSE req' = [req EXCEPT ![r] =
                    [rec EXCEPT !.imageUrl = product[1].imageUrl,
                                !.pc = IF HasOldImage(product[1].imageUrl)
                                       THEN "destroy" ELSE "dbdelete"]]
    /\ UNCHANGED <<products, categories, links, media, nextImage, now, modal, started>>

\* a deleteProduct for which a failed destroy is fatal, as in updateProduct
DeleteProductDestroyedFatal(r, ok) ==
    /\ Resumes(r, "delete", "destroy")
    /\ LET rec == Called(req[r], "destroy", ok)
       IN  IF ok
           THEN /\ media' = media \ {DestroyKey(rec.imageUrl)}
                /\ req' = [req EXCEPT ![r] = [rec EXCEPT !.pc = "dbdelete"]]
           ELSE /\ Respond(r, rec, 500)
                /\ UNCHANGED media
    /\ UNCHANGED <<products, categories, links, nextImage, now, modal, started>>

\* cloudinary.uploader.destroy returns or throws; a throw is logged and
\* swallowed; prisma.products.delete is issued either way
DeleteProductDestroyed(r, ok) ==
    /\ Resumes(r, "delete", "destroy")
    /\ LET rec == Called(req[r], "destroy", ok)
       IN  /\ media' = IF ok THEN media \ {DestroyKey(rec.imageUrl)} ELSE media
           /\ req' = [req EXCEPT ![r] = [rec EXCEPT !.pc = "dbdelete"]]
    /\ UNCHANGED <<products, categories, links, nextImage, now, modal, started>>

\* a database delete that succeeds whether or not the row is still there
DeleteProductDeletedMany(r, ok) ==
    /\ Resumes(r, "delete", "dbdelete")
    /\ LET rec == Called(req[r], "products.delete", ok)
       IN  IF ok
           THEN /\ PrismaDelete(rec.productId)
                /\ Respond(r, rec, 200)
           ELSE /\ Respond(r, rec, 500)
                /\ UNCHANGED <<products, categories, links>>
    /\ UNCHANGED <<media, nextImage, now, modal, started>>

\* prisma.products.delete returns or throws
DeleteProductDeleted(r, ok) ==
    /\ Resumes(r, "delete", "dbdelete")
    /\ LET done == ok /\ ProductExists(req[r].productId)
           rec == Called(req[r], "products.delete", done)
       IN  IF done
           THEN /\ PrismaDelete(rec.productId)
                /\ Respond(r, rec, 200)
           ELSE /\ Respond(r, rec, 500)
                /\ UNCHANGED <<products, categories, links>>
    /\ UNCHANGED <<media, nextImage, now, modal, started>>

(***************************************************************************)
(* Category handlers.  Each makes one database call; the call's effect and *)
(* the response are one step.                                              *)
(***************************************************************************)
\* prisma.productCategory.create
CreateProductCategory(r, categoryId, ok) ==
    /\ CanStart(r)
    /\ started' = started + 1
    /\ LET done == ok /\ categoryId # UNDEF /\ categoryId \notin categories
           rec == Called([Idle EXCEPT !.op = "createCategory",
                                      !.categoryId = categoryId],
                         "productCategory.create", done)
       IN  IF done
           THEN /\ categories' = categories \cup {categoryId}
                /\ Respond(r, rec, 201)
           ELSE /\ Respond(r, rec, 500)
                /\ UNCHANGED categories
    /\ UNCHANGED <<products, links, media, nextImage, now, modal>>

\* prisma.productCategory.delete
DeleteProductCategory(r, categoryId, ok) ==
    /\ CanStart(r)
    /\ started' = started + 1
    /\ LET done == ok /\ categoryId \in categories
           rec == Called([Idle EXCEPT !.op = "deleteCategory",
                                      !.categoryId = categoryId],
                         "productCategory.delete", done)
       IN  IF done
           THEN /\ categories' = categories \ {categoryId}
                /\ links' = CascadeCategory(categoryId)
                /\ Respond(r, rec, 200)
           ELSE /\ Respond(r, rec, 500)
                /\ UNCHANGED <<categories, links>>
    /\ UNCHANGED <<products, media, nextImage, now, modal>>

\* an addProductToCategory that resets the product's categories first
AddProductToCategoryReplace(r, productId, categoryId, ok) ==
    /\ CanStart(r)
    /\ started' = started + 1
    /\ LET done == ok /\ CanUpdate(productId, categoryId)
           rec == Called([Idle EXCEPT !.op = "addProduct",
                                      !.productId = productId,
                                      !.categoryId = categoryId],
                         "products.update", done)
       IN  IF done
           THEN /\ links' = CascadeProduct(productId)
                                \cup {<<categoryId, productId>>}
                /\ Respond(r, rec, 200)
           ELSE /\ Respond(r, rec, 500)
                /\ UNCHANGED links
    /\ UNCHANGED <<products, categories, media, nextImage, now, modal>>

\* prisma.products.update({data: {categories: {connect: {categoryId}}}})
AddProductToCategory(r, productId, categoryId, ok) ==
    /\ CanStart(r)
    /\ started' = started + 1
    /\ LET done == ok /\ CanUpdate(productId, categoryId)
           rec == Called([Idle EXCEPT !.op = "addProduct",
                                      !.productId = productId,
                                      !.categoryId = categoryId],
                         "products.update", done)
       IN  IF done
           THEN /\ links' = links \cup {<<categoryId, productId>>}
                /\ Respond(r, rec, 200)
           ELSE /\ Respond(r, rec, 500)
                /\ UNCHANGED links
    /\ UNCHANGED <<products, categories, media, nextImage, now, modal>>

(***************************************************************************)
(* Dates.  A timestamp is a day number counted from 1 January of           *)
(* EpochYear; months are 0..11 as in JavaScript.                           *)
(***************************************************************************)
\* the first year of the calendar
EpochYear == 2023
Years == EpochYear..(EpochYear + 2)

IsLeap(y) == (y % 4 = 0 /\ y % 100 # 0) \/ y % 400 = 0

DaysInMonth(y, m) ==
    CASE m = 1 -> IF IsLeap(y) THEN 29 ELSE 28
      [] m \in {3, 5, 8, 10} -> 30
      [] OTHER -> 31

RECURSIVE DaysBeforeMonth(_, _)
DaysBeforeMonth(y, m) ==
    IF m = 0 THEN 0 ELSE DaysBeforeMonth(y, m - 1) + DaysInMonth(y, m - 1)

RECURSIVE DaysBeforeYear(_)
DaysBeforeYear(y) ==
    IF y <= EpochYear THEN 0
    ELSE DaysBeforeYear(y - 1) + (IF IsLeap(y - 1) THEN 366 ELSE 365)

\* MakeDay: the day number of day d of month m of year y; a d past the end
\* of the month runs on into the following month
MakeDay(y, m, d) == DaysBeforeYear(y) + DaysBeforeMonth(y, m) + d - 1

\* getFullYear, getMonth, getDate: the calendar date <<y, m, d>> of a day number
DateOf(n) ==
    LET y == CHOOSE x \in Years :
                 DaysBeforeYear(x) <= n /\ n < DaysBeforeYear(x + 1)
        k == n - DaysBeforeYear(y)
        m == CHOOSE x \in 0..11 :
                 /\ DaysBeforeMonth(y, x) <= k
                 /\ k < DaysBeforeMonth(y, x) + DaysInMonth(y, x)
    IN  <<y, m, k - DaysBeforeMonth(y, m) + 1>>

\* date.setMonth(date.getMonth() + delta), for -12 <= delta <= 0
SetMonth(n, delta) ==
    LET t == DateOf(n)
        m == t[2] + delta
    IN  IF m < 0 THEN MakeDay(t[1] - 1, m + 12, t[3])
        ELSE MakeDay(t[1], m, t[3])

\* lines 298-299
TwoMonthsAgo(n) == SetMonth(n, 0 - 2)

(***************************************************************************)
(* getNewArrivals                                                          *)
(***************************************************************************)
\* the order in which findMany lists rows that no orderBy separates
IdOrder == <<"c1", "c2", "p1", "p2", "p3">>

Rank(id) == CHOOSE i \in 1..Len(IdOrder) : IdOrder[i] = id

\* orderBy: {createdAt: 'desc'}
NewerFirst(p, q) ==
    \/ products[p].createdAt > products[q].createdAt
    \/ products[p].createdAt = products[q].createdAt /\ Rank(p) < Rank(q)

RECURSIVE OrderBy(_)
OrderBy(S) ==
    IF S = {} THEN <<>>
    ELSE LET first == CHOOSE p \in S : \A q \in S \ {p} : NewerFirst(p, q)
         IN  <<first>> \o OrderBy(S \ {first})

\* where: {createdAt: {gte: twoMonthsAgo}} on the products of category c
RecentProducts(c, cutoff) ==
    {p \in DOMAIN products : <<c, p>> \in links /\ products[p].createdAt >= cutoff}

\* a category filter that asks for some product, of any age
HasSome(c, cutoff) == \E p \in DOMAIN products : <<c, p>> \in links

\* where: {products: {some: {createdAt: {gte: twoMonthsAgo}}}}
HasRecent(c, cutoff) ==
    \E p \in DOMAIN products : <<c, p>> \in links /\ products[p].createdAt >= cutoff

RECURSIVE ListCategories(_, _)
ListCategories(S, cutoff) ==
    IF S = {} THEN <<>>
    ELSE LET c == CHOOSE x \in S : \A y \in S : Rank(x) <= Rank(y)
         IN  << [categoryId |-> c,
                 products |-> OrderBy(RecentProducts(c, cutoff))] >>
             \o ListCategories(S \ {c}, cutoff)

\* prisma.productCategory.findMany({include: ..., where: ...}), lines 302-325
FindNewArrivals(cutoff) ==
    ListCategories({c \in categories : HasRecent(c, cutoff)}, cutoff)

NonEmpty(category) == Len(category.products) > 0

\* lines 328-330
FilteredCategories(newArrivals) == SelectSeq(newArrivals, NonEmpty)

GetNewArrivals(r, ok) ==
    /\ CanStart(r)
    /\ started' = started + 1
    /\ LET rec == Called([Idle EXCEPT !.op = "newArrivals"],
                         "productCategory.findMany", ok)
       IN  IF ok
           THEN Respond(r, [rec EXCEPT !.result =
                    FilteredCategories(FindNewArrivals(TwoMonthsAgo(now)))], 200)
           ELSE Respond(r, rec, 500)
    /\ UNCHANGED <<products, categories, links, media, nextImage, now, modal>>

(***************************************************************************)
(* Read handlers.  Each makes one database call and answers with the rows  *)
(* it read.                                                                *)
(***************************************************************************)
RECURSIVE InIdOrder(_)
InIdOrder(S) ==
    IF S = {} THEN <<>>
    ELSE LET x == CHOOSE y \in S : \A z \in S : Rank(y) <= Rank(z)
         IN  <<x>> \o InIdOrder(S \ {x})

\* where: {name: {contains: search}}; an undefined search is no condition
Contains(name, search) == search = UNDEF \/ name = search

ProductRows(ids) == [i \in 1..Len(ids) |-> [productId |-> ids[i]]]

\* include: {products: true}
WithProducts(c) ==
    [categoryId |-> c,
     products |-> InIdOrder({p \in DOMAIN products : <<c, p>> \in links})]

CategoryRows(ids) == [i \in 1..Len(ids) |-> WithProducts(ids[i])]

\* a getProducts that answers a failed query with an empty list
GetProductsLenient(r, search, ok) ==
    /\ CanStart(r)
    /\ started' = started + 1
    /\ LET rec == Called([Idle EXCEPT !.op = "getProducts"],
                         "products.findMany", ok)
       IN  Respond(r, [rec EXCEPT !.result = IF ok THEN ProductRows(InIdOrder(
                    {p \in DOMAIN products :
                        Contains(products[p].name, search)})) ELSE <<>>], 200)
    /\ UNCHANGED <<products, categories, links, media, nextImage, now, modal>>

\* prisma.products.findMany
GetProducts(r, search, ok) ==
    /\ CanStart(r)
    /\ started' = started + 1
    /\ LET rec == Called([Idle EXCEPT !.op = "getProducts"],
                         "products.findMany", ok)
       IN  IF ok
           THEN Respond(r, [rec EXCEPT !.result = ProductRows(InIdOrder(
                    {p \in DOMAIN products :
                        Contains(products[p].name, search)}))], 200)
           ELSE Respond(r, rec, 500)
    /\ UNCHANGED <<products, categories, links, media, nextImage, now, modal>>

\* prisma.productCategory.findMany
GetProductCategories(r, ok) ==
    /\ CanStart(r)
    /\ started' = started + 1
    /\ LET rec == Called([Idle EXCEPT !.op = "getCategories"],
                         "productCategory.findMany", ok)
       IN  IF ok
           THEN Respond(r, [rec EXCEPT !.result =
                    CategoryRows(InIdOrder(categories))], 200)
           ELSE Respond(r, rec, 500)
    /\ UNCHANGED <<products, categories, links, media, nextImage, now, modal>>

\* prisma.productCategory.findUnique
GetProductsByCategory(r, categoryId, ok) ==
    /\ CanStart(r)
    /\ started' = started + 1
    /\ LET rec == Called([Idle EXCEPT !.op = "getByCategory",
                                      !.categoryId = categoryId],
                         "productCategory.findUnique", ok)
       IN  IF ~ok THEN Respond(r, rec, 500)
           ELSE IF categoryId \notin categories THEN Respond(r, rec, 404)
           ELSE Respond(r, [rec EXCEPT !.result =
                    <<WithProducts(categoryId)>>], 200)
    /\ UNCHANGED <<products, categories, links, media, nextImage, now, modal>>

\* the response has left; the slot is free for the next request
Deliver(r) ==
    /\ req[r].pc = "done"
    /\ req' = [req EXCEPT ![r] = Idle]
    /\ UNCHANGED <<products, categories, links, media, nextImage, now, modal, started>>

(***************************************************************************)
(* Specification of the write path: an empty product table, the two        *)
(* categories present, requests arriving and interleaving.                 *)
(***************************************************************************)
\* 30 April 2025
StartDay == MakeDay(2025, 3, 30)

\* request bodies of the write path
BodyNames == {UNDEF, "n1"}
BodyPrices == {"5"}
BodyStocks == {"7"}
BodyCategoryIds == {UNDEF} \cup CategoryIds
UpdateNames == {"n2"}
UpdatePrices == {"7"}
UpdateStocks == {"5"}

Init ==
    /\ products = <<>>
    /\ categories = CategoryIds
    /\ links = {}
    /\ media = {}
    /\ nextImage = 1
    /\ now = StartDay
    /\ started = 0
    /\ req = [r \in Slots |-> Idle]
    /\ modal = InitialModal

CreateRequest(r) ==
    \E productId \in ProductIds, name \in BodyNames, price \in BodyPrices,
       stockQuantity \in BodyStocks, categoryId \in BodyCategoryIds,
       file \in Files :
        CreateProductStart(r, productId, name, price, stockQuantity,
                           categoryId, file)

CreateSteps(r) ==
    \/ \E ok \in BOOLEAN : CreateProductUploaded(r, ok)
    \/ \E ok \in BOOLEAN : CreateProductWritten(r, ok)

UpdateRequest(r) ==
    \E productId \in ProductIds, name \in UpdateNames, price \in UpdatePrices,
       stockQuantity \in UpdateStocks, categoryId \in BodyCategoryIds,
       file \in Files :
        UpdateProductStart(r, productId, name, price, stockQuantity,
                           categoryId, file)

UpdateSteps(r) ==
    \/ \E ok \in BOOLEAN : UpdateProductFound(r, ok)
    \/ \E ok \in BOOLEAN : UpdateProductDestroyed(r, ok)
    \/ \E ok \in BOOLEAN : UpdateProductUploaded(r, ok)
    \/ \E ok \in BOOLEAN : UpdateProductWritten(r, ok)

DeleteRequest(r) == \E productId \in ProductIds : DeleteProductStart(r, productId)

DeleteSteps(r) ==
    \/ \E ok \in BOOLEAN : DeleteProductFound(r, ok)
    \/ \E ok \in BOOLEAN : DeleteProductDestroyed(r, ok)
    \/ \E ok \in BOOLEAN : DeleteProductDeleted(r, ok)

CategoryRequest(r) ==
    \/ \E categoryId \in BodyCategoryIds, ok \in BOOLEAN :
            CreateProductCategory(r, categoryId, ok)
    \/ \E categoryId \in CategoryIds, ok \in BOOLEAN :
            DeleteProductCategory(r, categoryId, ok)
    \/ \E productId \in ProductIds, categoryId \in BodyCategoryIds,
          ok \in BOOLEAN :
            AddProductToCategory(r, productId, categoryId, ok)

ReadRequest(r) ==
    \/ \E search \in BodyNames, ok \in BOOLEAN : GetProducts(r, search, ok)
    \/ \E ok \in BOOLEAN : GetProductCategories(r, ok)
    \/ \E categoryId \in CategoryIds, ok \in BOOLEAN :
            GetProductsByCategory(r, categoryId, ok)

Next ==
    \E r \in Slots :
        \/ CreateRequest(r)
        \/ CreateSteps(r)
        \/ UpdateRequest(r)
        \/ UpdateSteps(r)
        \/ DeleteRequest(r)
        \/ DeleteSteps(r)
        \/ CategoryRequest(r)
        \/ \E ok \in BOOLEAN : GetNewArrivals(r, ok)
        \/ ReadRequest(r)
        \/ Deliver(r)

Spec == Init /\ [][Next]_vars

(***************************************************************************)
(* Specification of createProduct alone, over every combination of absent, *)
(* empty and given fields.                                                 *)
(***************************************************************************)
AnyNames == {UNDEF, "", "n1"}
AnyPrices == {UNDEF, "5"}
AnyStocks == {"", "7"}
AnyCategoryIds == {UNDEF, "", "c1"}
AnyProductIds == {UNDEF, "p1"}

AnyCreateRequest(r) ==
    \E productId \in AnyProductIds, name \in AnyNames, price \in AnyPrices,
       stockQuantity \in AnyStocks, categoryId \in AnyCategoryIds,
       file \in Files :
        CreateProductStart(r, productId, name, price, stockQuantity,
                           categoryId, file)

CreateNext ==
    \E r \in Slots :
        \/ AnyCreateRequest(r)
        \/ CreateSteps(r)
        \/ \E categoryId \in CategoryIds, ok \in BOOLEAN :
                DeleteProductCategory(r, categoryId, ok)
        \/ Deliver(r)

CreateSpec == Init /\ [][CreateNext]_vars

(***************************************************************************)
(* Properties.                                                             *)
(***************************************************************************)
Range(q) == {q[i] : i \in 1..Len(q)}

Last(q) == q[Len(q)]

CallNames(rec) == [i \in 1..Len(rec.calls) |-> rec.calls[i][1]]

\* request r of kind op has its response
Done(r, op) == req[r].op = op /\ req[r].pc = "done"

\* request r takes a step
Steps(r) == req'[r] # req[r]

\* the fields a createProduct request lacks: absent or empty in the body,
\* no file
Lacking(rec) ==
    {f \in {"name", "price", "stockQuantity", "categoryId"} :
        rec[f] \in {UNDEF, ""}}
    \cup (IF rec.file = NoFile THEN {"image"} ELSE {})

\* C1: a createProduct request that lacks at least one of name, price,
\* stockQuantity, categoryId and the image file is answered 400 with
\* missingFields listing exactly the lacking fields, each once; it makes no
\* upload and no database call, and the tables and the media store are as
\* they were.
C1_MissingFields ==
    [][\A r \in Slots :
        (Steps(r) /\ req'[r].op = "create" /\ req[r].pc = "idle"
            /\ Lacking(req'[r]) # {})
        => /\ req'[r].pc = "done"
           /\ req'[r].status = 400
           /\ Range(req'[r].missingFields) = Lacking(req'[r])
           /\ Len(req'[r].missingFields) = Cardinality(Lacking(req'[r]))
           /\ req'[r].calls = <<>>
           /\ UNCHANGED <<products, categories, links, media, nextImage>>]_vars

\* a 400 that names a body field and the image
C1_Witness ==
    \E r \in Slots :
        /\ Done(r, "create") /\ req[r].status = 400
        /\ req[r].missingFields = <<"price", "categoryId", "image">>
        /\ req[r].name = "n1"

\* C2: a createProduct request whose upload and database write both succeed
\* is answered 201; the new row stores the secure URL of the object the
\* upload returned, that object is in the media store, and the product is
\* linked to exactly the category of the request.
C2_Created ==
    \A r \in Slots :
        (Done(r, "create") /\ Len(req[r].calls) = 2
            /\ \A i \in 1..2 : req[r].calls[i][2])
        => /\ req[r].status = 201
           /\ ProductExists(req[r].productId)
           /\ products[req[r].productId].imageUrl = req[r].imageUrl
           /\ products[req[r].productId].imageUrl # NullUrl
           /\ DestroyKey(products[req[r].productId].imageUrl) = req[r].uploaded
           /\ req[r].uploaded \in media
           /\ CategoriesOf(req[r].productId) = {req[r].categoryId}

C2_Witness ==
    \E r \in Slots :
        /\ Done(r, "create") /\ req[r].status = 201
        /\ req[r].categoryId = "c2"
        /\ req[r].uploaded = UploadedPublicId(2)

\* C3: when the lookup of updateProduct or deleteProduct finds no row for
\* the product id, the response is 404, the lookup is the only call the
\* request has made, and no product row, category link or media object is
\* created, changed or deleted.
C3_NotFound ==
    [][\A r \in Slots :
        /\ (Steps(r) /\ req[r].op \in {"update", "delete"}
                /\ req[r].pc = "find"
                /\ Last(req'[r].calls) = <<"products.findUnique", TRUE>>
                /\ ~ProductExists(req[r].productId))
           => /\ req'[r].pc = "done" /\ req'[r].status = 404
              /\ Len(req'[r].calls) = 1
              /\ UNCHANGED <<products, categories, links, media, nextImage>>
        /\ (Steps(r) /\ req'[r].op \in {"update", "delete"}
                /\ req'[r].status = 404)
           => /\ ~ProductExists(req'[r].productId)
              /\ Len(req'[r].calls) = 1
              /\ UNCHANGED <<products, categories, links, media, nextImage>>]_vars

\* a 404 for an absent product while another product and its image exist
C3_Witness ==
    \E r \in Slots :
        /\ Done(r, "update") /\ req[r].status = 404
        /\ req[r].file # NoFile
        /\ DOMAIN products # {} /\ media # {}

\* C4: after every successful updateProduct the product is linked to
\* exactly one category, the one of the request, whatever it was linked to
\* before.
C4_OneCategory ==
    \A r \in Slots :
        (Done(r, "update") /\ req[r].status = 200)
        => CategoriesOf(req[r].productId) = {req[r].categoryId}

\* a successful update of a product that was linked to both categories
C4_Witness ==
    \E r \in Slots :
        /\ Done(r, "update") /\ req[r].status = 200
        /\ req[r].replaced = CategoryIds

\* the request has made the call `what` and it threw
Threw(rec, what) == \E i \in 1..Len(rec.calls) : rec.calls[i] = <<what, FALSE>>

\* the statement of C5 as the specification has it: once the lookup has
\* found the product and the remote image deletion has failed, the response
\* is 200 and the row is gone
C5_AsClaimed ==
    \A r \in Slots :
        (Done(r, "delete") /\ Threw(req[r], "destroy"))
        => req[r].status = 200 /\ ~ProductExists(req[r].productId)

\* C5 (amended): when deleteProduct's remote image deletion fails, the
\* request goes on to the database delete; if that delete succeeds the row
\* is removed and the response is 200, and the response is an error only
\* if the database delete itself failed.
C5_DeleteDespiteImageFailure ==
    \A r \in Slots :
        (req[r].op = "delete" /\ Threw(req[r], "destroy"))
        => /\ req[r].pc \in {"dbdelete", "done"}
           /\ req[r].pc = "done" =>
                /\ CallNames(req[r]) =
                     <<"products.findUnique", "destroy", "products.delete">>
                /\ IF Last(req[r].calls)[2]
                   THEN req[r].status = 200 /\ ~ProductExists(req[r].productId)
                   ELSE req[r].status = 500

\* a 200 after a failed image deletion: the row is gone, the image is left
C5_Witness ==
    \E r \in Slots :
        /\ Done(r, "delete") /\ Threw(req[r], "destroy")
        /\ req[r].status = 200
        /\ DestroyKey(req[r].imageUrl) \in media

\* C7: when createProduct's image upload fails (the conversion of the
\* buffer or the upload call throws) the response is 500, the request makes
\* no database call, and no table changes in that step.
C7_UploadFailure ==
    [][\A r \in Slots :
        (Steps(r) /\ req'[r].op = "create"
            /\ \/ req[r].pc = "upload" /\ Threw(req'[r], "upload")
               \/ req[r].pc = "idle" /\ Lacking(req'[r]) = {}
                    /\ req'[r].file # MemFile)
        => /\ req'[r].pc = "done" /\ req'[r].status = 500
           /\ "products.create" \notin Range(CallNames(req'[r]))
           /\ UNCHANGED <<products, categories, links, media>>]_vars

\* a 500 after a failed upload call, the product id still without a row
C7_Witness ==
    \E r \in Slots :
        /\ Done(r, "create") /\ req[r].status = 500
        /\ req[r].calls = << <<"upload", FALSE>> >>
        /\ ~ProductExists(req[r].productId)

\* the image URLs the product rows store
StoredUrls == {products[p].imageUrl : p \in DOMAIN products}

\* C8: when createProduct's upload succeeds and its database write fails,
\* the response is 500, no table changes, the uploaded object stays in the
\* media store, no row stores its URL, and the request makes no further
\* call (no cleanup).
C8_OrphanImage ==
    [][\A r \in Slots :
        (Steps(r) /\ req[r].op = "create" /\ req[r].pc = "dbcreate"
            /\ Threw(req'[r], "products.create"))
        => /\ req'[r].pc = "done" /\ req'[r].status = 500
           /\ UNCHANGED <<products, categories, links>>
           /\ req'[r].uploaded \in media'
           /\ req'[r].imageUrl \notin StoredUrls'
           /\ CallNames(req'[r]) = <<"upload", "products.create">>]_vars

\* a 500 for a product id that already has a row, the new upload orphaned
C8_Witness ==
    \E r \in Slots :
        /\ Done(r, "create") /\ req[r].status = 500
        /\ Threw(req[r], "products.create")
        /\ ProductExists(req[r].productId)
        /\ req[r].categoryId \in categories
        /\ req[r].uploaded \in media

\* C9: when updateProduct is given a new image file and the remote deletion
\* of the previous image fails, the response is 500, no upload is made, and
\* the product rows, the links and the media store are as they were.
C9_DestroyFailureFatal ==
    [][\A r \in Slots :
        (Steps(r) /\ req[r].op = "update" /\ req[r].pc = "destroy"
            /\ Threw(req'[r], "destroy"))
        => /\ req'[r].pc = "done" /\ req'[r].status = 500
           /\ "upload" \notin Range(CallNames(req'[r]))
           /\ "products.update" \notin Range(CallNames(req'[r]))
           /\ UNCHANGED <<products, categories, links, media, nextImage>>]_vars

\* a 500 after the failed deletion; the row still has its image
C9_Witness ==
    \E r \in Slots :
        /\ Done(r, "update") /\ req[r].status = 500
        /\ Threw(req[r], "destroy")
        /\ ProductExists(req[r].productId)
        /\ products[req[r].productId].imageUrl = req[r].imageUrl
        /\ DestroyKey(req[r].imageUrl) \in media

\* no request is in flight
Quiet == \A r \in Slots : req[r].pc = "idle"

\* C10: once the requests have ended, every product row that stores an
\* image URL stores the URL of an object that is in the media store.
C10_NoDanglingRow ==
    Quiet => \A p \in DOMAIN products :
                products[p].imageUrl # NullUrl
                => DestroyKey(products[p].imageUrl) \in media

\* C12: in every handler a database or media-host call that fails ends the
\* request with a 500 response in that step; the one failed call after
\* which a request goes on (and can still answer with a success status) is
\* the remote image deletion of deleteProduct.
C12_FailuresAnswer500 ==
    \A r \in Slots : \A i \in 1..Len(req[r].calls) :
        req[r].calls[i][2] = FALSE
        => \/ req[r].pc = "done" /\ req[r].status = 500
                /\ i = Len(req[r].calls)
           \/ req[r].op = "delete" /\ req[r].calls[i][1] = "destroy"

\* an updateProduct whose upload succeeded and whose database update failed
C12_Witness ==
    \E r \in Slots :
        /\ Done(r, "update") /\ req[r].status = 500
        /\ <<"upload", TRUE>> \in Range(req[r].calls)
        /\ Threw(req[r], "products.update")

\* the calls a handler can make, in the order of its code
HandlerCalls(op) ==
    CASE op = "create" -> <<"upload", "products.create">>
      [] op = "update" -> <<"products.findUnique", "destroy", "upload",
                            "products.update">>
      [] op = "delete" -> <<"products.findUnique", "destroy",
                            "products.delete">>
      [] op = "createCategory" -> <<"productCategory.create">>
      [] op = "deleteCategory" -> <<"productCategory.delete">>
      [] op = "addProduct" -> <<"products.update">>
      [] op = "getProducts" -> <<"products.findMany">>
      [] op = "getCategories" -> <<"productCategory.findMany">>
      [] op = "getByCategory" -> <<"productCategory.findUnique">>
      [] op = "newArrivals" -> <<"productCategory.findMany">>
      [] OTHER -> <<>>

\* q lists some of the members of s, each once, in the order of s
RECURSIVE SubSeqOf(_, _)
SubSeqOf(q, s) ==
    IF q = <<>> THEN TRUE
    ELSE IF s = <<>> THEN FALSE
    ELSE IF Head(q) = Head(s) THEN SubSeqOf(Tail(q), Tail(s))
    ELSE SubSeqOf(q, Tail(s))

\* C13: no handler retries: within one request each external call of the
\* handler (each database operation, the upload, the destroy) is made at
\* most once, in the order of the code, whether it returned or threw.
C13_EachCallOnce ==
    \A r \in Slots :
        /\ \A i, j \in 1..Len(req[r].calls) :
                req[r].calls[i][1] = req[r].calls[j][1] => i = j
        /\ SubSeqOf(CallNames(req[r]), HandlerCalls(req[r].op))

\* an updateProduct that made all four of its calls while another request
\* has had a call fail
C13_Witness ==
    \E r, q \in Slots :
        /\ Done(r, "update") /\ Len(req[r].calls) = 4
        /\ q # r /\ req[q].pc # "idle"
        /\ \E i \in 1..Len(req[q].calls) : req[q].calls[i][2] = FALSE

\* C14: every link joins a product row and a category row that exist;
\* a step that deletes a product or a category removes exactly the links of
\* what it deletes, and a step that deletes a category leaves every product
\* row as it was.
C14_LinksIntact ==
    [][/\ links' \subseteq categories' \X DOMAIN products'
       /\ \A c \in categories \ categories' :
            /\ products' = products
            /\ links' = {l \in links : l[1] # c}
       /\ \A p \in DOMAIN products \ DOMAIN products' :
            /\ categories' = categories
            /\ links' = {l \in links : l[2] # p}]_vars

\* a category has been deleted and a product that was linked to it is
\* still there, linked to nothing
C14_Witness ==
    \E r \in Slots :
        /\ Done(r, "deleteCategory") /\ req[r].status = 200
        /\ \E p \in DOMAIN products : CategoriesOf(p) = {}

\* request r answers 200 to an addProductToCategory in this step
Added(r) == Steps(r) /\ req'[r].op = "addProduct" /\ req'[r].status = 200

\* the link an addProductToCategory request asks for
AskedLink(rec) == <<rec.categoryId, rec.productId>>

\* the statement of C16 as the specification has it: a successful
\* addProductToCategory adds exactly one link, the one asked for, and
\* changes nothing else; no step adds more than one link
C16_AsClaimed ==
    [][/\ \A r \in Slots :
            Added(r) => /\ links' \ links = {AskedLink(req'[r])}
                        /\ links \subseteq links'
                        /\ UNCHANGED <<products, categories, media>>
       /\ Cardinality(links' \ links) <= 1]_vars

\* C16 (amended): a successful addProductToCategory leaves the product
\* linked to the given category, adding that one link when it was not
\* there and no link when it already was; every other link and every row
\* is unchanged; no step of any write request adds more than one link.
C16_AddsAtMostOneLink ==
    [][/\ \A r \in Slots :
            Added(r) => /\ links' = links \cup {AskedLink(req'[r])}
                        /\ UNCHANGED <<products, categories, media>>
       /\ Cardinality(links' \ links) <= 1]_vars

\* a product has been added to a second category and is in both
C16_Witness ==
    \E r \in Slots :
        /\ Done(r, "addProduct") /\ req[r].status = 200
        /\ CategoriesOf(req[r].productId) = CategoryIds

(***************************************************************************)
(* Specification of getNewArrivals: the handler applied to tables that     *)
(* hold three products of various ages, linked to the categories in every  *)
(* way, on several dates.                                                  *)
(***************************************************************************)
ArrivalProducts == {"p1", "p2", "p3"}

\* 15 January 2025, 31 March 2025, 30 April 2025
ArrivalDays == {MakeDay(2025, 0, 15), MakeDay(2025, 2, 31), MakeDay(2025, 3, 30)}

\* ages in days of the products, around the two-month mark
ArrivalAges == {0, 59, 60, 62}

ArrivalsInit ==
    /\ now \in ArrivalDays
    /\ \E age \in [ArrivalProducts -> ArrivalAges] :
          products = [p \in ArrivalProducts |->
                          Row("n1", 5, 7, NullUrl, now - age[p])]
    /\ categories = CategoryIds
    /\ links \in SUBSET (CategoryIds \X ArrivalProducts)
    /\ media = {}
    /\ nextImage = 1
    /\ started = 0
    /\ req = [r \in Slots |-> Idle]
    /\ modal = InitialModal

ArrivalsNext ==
    \E r \in Slots :
        \/ \E ok \in BOOLEAN : GetNewArrivals(r, ok)
        \/ Deliver(r)

ArrivalsSpec == ArrivalsInit /\ [][ArrivalsNext]_vars

\* the day two calendar months before day n: the same day of the month, or
\* the last day of that month when it is shorter
TwoMonthsBefore(n) ==
    LET t == DateOf(n)
        m == IF t[2] < 2 THEN t[2] + 10 ELSE t[2] - 2
        y == IF t[2] < 2 THEN t[1] - 1 ELSE t[1]
        d == IF t[3] > DaysInMonth(y, m) THEN DaysInMonth(y, m) ELSE t[3]
    IN  MakeDay(y, m, d)

\* product p was created within the last two months
WithinTwoMonths(p) ==
    /\ products[p].createdAt >= TwoMonthsBefore(now)
    /\ products[p].createdAt <= now

NewProductsOf(c) ==
    {p \in DOMAIN products : <<c, p>> \in links /\ WithinTwoMonths(p)}

\* C6: a successful getNewArrivals returns exactly the categories that have
\* at least one product created within the last two months, each once, and
\* each with exactly those of its products, newest first.
C6_NewArrivals ==
    \A r \in Slots :
        (Done(r, "newArrivals") /\ req[r].status = 200)
        => LET res == req[r].result
           IN  /\ {res[i].categoryId : i \in 1..Len(res)}
                    = {c \in categories : NewProductsOf(c) # {}}
               /\ \A i, j \in 1..Len(res) :
                    i # j => res[i].categoryId # res[j].categoryId
               /\ \A i \in 1..Len(res) :
                    LET ps == res[i].products
                    IN  /\ Range(ps) = NewProductsOf(res[i].categoryId)
                        /\ Len(ps) = Cardinality(Range(ps))
                        /\ \A a, b \in 1..Len(ps) :
                             a < b => products[ps[a]].createdAt
                                        >= products[ps[b]].createdAt

\* C17: the filter getNewArrivals applies after its query removes nothing:
\* whatever the tables hold, every category the query returns has at least
\* one matching product, the filtered list is the query's result, and that
\* is what a successful request answers.
C17_FilterRedundant ==
    LET newArrivals == FindNewArrivals(TwoMonthsAgo(now))
    IN  /\ \A i \in 1..Len(newArrivals) : Len(newArrivals[i].products) > 0
        /\ FilteredCategories(newArrivals) = newArrivals
        /\ \A r \in Slots :
              (Done(r, "newArrivals") /\ req[r].status = 200)
              => req[r].result = newArrivals

\* a request returned one category while the other category has products,
\* all of them older than the cutoff
C17_Witness ==
    \E r \in Slots :
        /\ Done(r, "newArrivals") /\ req[r].status = 200
        /\ Len(req[r].result) = 1
        /\ \A c \in categories : \E p \in DOMAIN products : <<c, p>> \in links

(***************************************************************************)
(* The product routes: a request passes through the middleware of its      *)
(* route before the handler runs.  POST / has upload.single('image') in    *)
(* front of createProduct; PUT /products/:productId has updateProduct      *)
(* alone.                                                                  *)
(***************************************************************************)
\* limits: { fileSize: 5 * 1024 * 1024 }
FileSizeLimit == 5 * 1024 * 1024

\* a file filter that lets every file through
FileFilterAny(part) == TRUE

\* fileFilter: file.mimetype.startsWith('image/')
FileFilter(part) == part.mimetype[1] = "image"

\* the size limit of the upload
WithinLimits(part) == part.size <= FileSizeLimit

\* upload.single('image') passes the request on to the handler
Accepts(part) == part = NoPart \/ (FileFilter(part) /\ WithinLimits(part))

\* req.file as upload.single('image') with memoryStorage leaves it
UploadSingle(part) == IF part = NoPart THEN NoFile ELSE MemFile

\* upload.single('image') ends the request with an error; createProduct is
\* never called
UploadRejected(r, sent) ==
    /\ CanStart(r)
    /\ started' = started + 1
    /\ Respond(r, [Idle EXCEPT !.op = "rejected", !.sent = sent], 500)
    /\ UNCHANGED <<products, categories, links, media, nextImage, now, modal>>

\* router.post("/", upload.single('image'), createProduct)
PostProduct(r, productId, name, price, stockQuantity, categoryId, sent) ==
    IF Accepts(sent)
    THEN CreateProductEntered(r, [Idle EXCEPT !.sent = sent], productId, name,
                              price, stockQuantity, categoryId,
                              UploadSingle(sent))
    ELSE UploadRejected(r, sent)

\* router.put('/products/:productId', updateProduct): nothing reads the
\* 'image' part, req.file is undefined
PutProduct(r, productId, name, price, stockQuantity, categoryId, sent) ==
    UpdateProductEntered(r, [Idle EXCEPT !.sent = sent], productId, name,
                         price, stockQuantity, categoryId, NoFile)

\* the 'image' parts a client sends
SmallImage == Part("image", "png", 1024)
LimitImage == Part("image", "jpeg", FileSizeLimit)
LargeImage == Part("image", "png", FileSizeLimit + 1)
TextFile == Part("text", "plain", 1024)
SentParts == {NoPart, SmallImage, LimitImage, LargeImage, TextFile}

PostRequest(r) ==
    \E productId \in ProductIds, name \in BodyNames, price \in BodyPrices,
       stockQuantity \in BodyStocks, categoryId \in CategoryIds,
       sent \in SentParts :
        PostProduct(r, productId, name, price, stockQuantity, categoryId, sent)

PutRequest(r) ==
    \E productId \in ProductIds, name \in UpdateNames, price \in UpdatePrices,
       stockQuantity \in UpdateStocks, categoryId \in BodyCategoryIds,
       sent \in {NoPart, SmallImage} :
        PutProduct(r, productId, name, price, stockQuantity, categoryId, sent)

\* updateProduct with req.file undefined awaits the lookup and the
\* database update only
RoutedUpdateSteps(r) ==
    \/ \E ok \in BOOLEAN : UpdateProductFound(r, ok)
    \/ \E ok \in BOOLEAN : UpdateProductWritten(r, ok)

RoutedNext ==
    \E r \in Slots :
        \/ PostRequest(r)
        \/ CreateSteps(r)
        \/ PutRequest(r)
        \/ RoutedUpdateSteps(r)
        \/ Deliver(r)

RoutedSpec == Init /\ [][RoutedNext]_vars

\* the lookup of an updateProduct request found the row
FoundRow(rec) ==
    /\ Len(rec.calls) > 0
    /\ rec.calls[1] = <<"products.findUnique", TRUE>>
    /\ rec.status # 404

\* C11: a PUT /products/:productId request, as routed, that carries a new
\* image file for an existing product uploads the file (after destroying
\* the previous image) and, when it answers 200, the row stores the URL of
\* the uploaded image.
C11_RoutedImageUpdate ==
    \A r \in Slots :
        (Done(r, "update") /\ FileFilter(req[r].sent) /\ FoundRow(req[r]))
        => /\ "upload" \in Range(CallNames(req[r]))
           /\ req[r].status = 200
                => /\ <<"upload", TRUE>> \in Range(req[r].calls)
                   /\ DestroyKey(products[req[r].productId].imageUrl)
                        = req[r].uploaded

\* C15: a POST / request whose file is no image, or is larger than 5MB, is
\* ended with an error by the upload middleware: createProduct does not
\* run, the request makes no call (no upload, no database write), and the
\* tables and the media store are as they were.
C15_UploadRejected ==
    [][\A r \in Slots :
        (Steps(r) /\ req[r].pc = "idle" /\ req'[r].op # "update"
            /\ req'[r].sent # NoPart
            /\ (req'[r].sent.mimetype[1] # "image"
                    \/ req'[r].sent.size > 5 * 1024 * 1024))
        => /\ req'[r].op = "rejected"
           /\ req'[r].pc = "done"
           /\ req'[r].status >= 400
           /\ req'[r].calls = <<>>
           /\ UNCHANGED <<products, categories, links, media, nextImage>>]_vars

\* a text file is refused while an earlier product and its image exist
C15_Witness ==
    \E r \in Slots :
        /\ req[r].op = "rejected" /\ req[r].pc = "done"
        /\ req[r].sent = TextFile
        /\ DOMAIN products # {} /\ media # {}

(***************************************************************************)
(* Specification of concurrent deletes: one product exists, with or        *)
(* without an image and linked to the categories in any way, and every     *)
(* slot serves a deleteProduct request for it.  An answered request stays  *)
(* in its slot, so the responses can be compared.                          *)
(***************************************************************************)
RaceProduct == "p1"

RaceInit ==
    /\ \E hasImage \in BOOLEAN :
          /\ products = [p \in {RaceProduct} |->
                            Row("n1", 5, 7,
                                IF hasImage THEN SecureUrl(1) ELSE NullUrl,
                                StartDay)]
          /\ media = IF hasImage THEN {UploadedPublicId(1)} ELSE {}
          /\ nextImage = IF hasImage THEN 2 ELSE 1
    /\ categories = CategoryIds
    /\ links \in SUBSET (CategoryIds \X {RaceProduct})
    /\ now = StartDay
    /\ started = 0
    /\ req = [r \in Slots |-> Idle]
    /\ modal = InitialModal

\* the response has left; the request stays on record
Answer(r) ==
    /\ req[r].pc = "done"
    /\ req' = [req EXCEPT ![r].pc = "answered"]
    /\ UNCHANGED <<products, categories, links, media, nextImage, now, modal, started>>

RaceNext ==
    \E r \in Slots :
        \/ DeleteProductStart(r, RaceProduct)
        \/ DeleteSteps(r)
        \/ Answer(r)

RaceSpec == RaceInit /\ [][RaceNext]_vars

\* every slot's request has been answered
AllAnswered == \A r \in Slots : req[r].pc = "answered"

\* the requests answered 200
Succeeded == {r \in Slots : req[r].pc = "answered" /\ req[r].status = 200}

\* the statement of C18 as the specification has it: once the concurrent
\* deleteProduct requests for the product have been answered, the row is
\* deleted, at most one request got 200 and every other got 404 or 500
C18_AsClaimed ==
    AllAnswered
    => /\ ~ProductExists(RaceProduct)
       /\ Cardinality(Succeeded) <= 1
       /\ \A r \in Slots \ Succeeded : req[r].status \in {404, 500}

\* C18 (amended): of the concurrent deleteProduct requests for one product
\* at most one is answered 200 and every other is answered 404 or 500; the
\* row is deleted exactly when one of them is answered 200, and stays when
\* every request's database call fails.
C18_AtMostOneDeletes ==
    /\ Cardinality(Succeeded) <= 1
    /\ AllAnswered
       => /\ \A r \in Slots \ Succeeded : req[r].status \in {404, 500}
          /\ ~ProductExists(RaceProduct) <=> Succeeded # {}

\* both requests found the row and issued the database delete; one was
\* answered 200, the other 500
C18_Witness ==
    /\ AllAnswered
    /\ \A r \in Slots : "products.delete" \in Range(CallNames(req[r]))
    /\ Succeeded # {}

(***************************************************************************)
(* CreateProductModal: the form state, validateForm and handleSubmit.      *)
(* handleSubmit runs up to its first await in the click; the fetch and the *)
(* reading of the response body are the awaits it resumes from.            *)
(***************************************************************************)
\* String.prototype.trim on the names the form takes
Trim(s) == IF s = " " THEN "" ELSE IF s = " n1 " THEN "n1" ELSE s

\* parseFloat / parseInt on the values a number input can hold
FormNumber(s) ==
    CASE s = "0" -> 0
      [] s = "-2" -> 0 - 2
      [] OTHER -> ParseNumber(s)

\* a <= b and a < b of JavaScript: false when a is NaN
JsLessEq(a, b) == a # NaN /\ a <= b
JsLess(a, b) == a # NaN /\ a < b

\* validateForm: the message it sets, "" when it returns true
ValidateForm(formData) ==
    IF Trim(formData.name) = "" THEN "Product name is required"
    ELSE IF formData.price = "" \/ JsLessEq(FormNumber(formData.price), 0)
    THEN "Valid price is required"
    ELSE IF formData.stockQuantity = ""
            \/ JsLess(FormNumber(formData.stockQuantity), 0)
    THEN "Valid stock quantity is required"
    ELSE IF formData.categoryId = "" THEN "Category is required"
    ELSE ""

ModalIdle == <<products, categories, links, media, nextImage, now, started, req>>

HandleChange(name, value) ==
    /\ modal' = [modal EXCEPT !.formData[name] = value]
    /\ UNCHANGED ModalIdle

HandleImageChange(file) ==
    /\ modal' =
          IF file.mimetype[1] # "image"
          THEN [modal EXCEPT !.error = "Please upload an image file"]
          ELSE IF file.size > 5 * 1024 * 1024
          THEN [modal EXCEPT !.error = "Image size should be less than 5MB"]
          ELSE [modal EXCEPT !.imagePreview = TRUE, !.formData.image = file,
                             !.error = ""]
    /\ UNCHANGED ModalIdle

\* the click on Create (the button is disabled while isSubmitting): up to
\* the fetch
HandleSubmit ==
    /\ modal.pc = "idle"
    /\ ~modal.isSubmitting
    /\ modal.fetches < MaxRequests
    /\ modal' =
          IF ValidateForm(modal.formData) # ""
          THEN [modal EXCEPT !.error = ValidateForm(modal.formData)]
          ELSE [modal EXCEPT !.error = "", !.isSubmitting = TRUE,
                             !.pc = "fetch", !.fetches = @ + 1]
    /\ UNCHANGED ModalIdle

\* a catch that leaves isSubmitting as it is
HandleSubmitCaughtNoFinally(message) ==
    /\ modal' = [modal EXCEPT !.error = message, !.pc = "idle"]
    /\ UNCHANGED ModalIdle

\* catch (error) { setError(...) } finally { setIsSubmitting(false) }
HandleSubmitCaught(message) ==
    /\ modal' = [modal EXCEPT !.error = message, !.isSubmitting = FALSE,
                              !.pc = "idle"]
    /\ UNCHANGED ModalIdle

\* await fetch(...): rejects, or resolves to a response that is ok or not
HandleSubmitFetched(outcome) ==
    /\ modal.pc = "fetch"
    /\ IF outcome = "rejects" THEN HandleSubmitCaught("Failed to fetch")
       ELSE /\ modal' = [modal EXCEPT !.pc = outcome]
            /\ UNCHANGED ModalIdle

\* !response.ok: await response.json(), then throw
HandleSubmitErrorData(message) ==
    /\ modal.pc = "notOk"
    /\ HandleSubmitCaught(IF message = "" THEN "Failed to create product"
                          ELSE message)

\* response.ok: await response.json(); onCreate; onClose; the form reset
HandleSubmitData(parsed, created) ==
    /\ modal.pc = "ok"
    /\ IF ~parsed THEN HandleSubmitCaught("Unexpected end of JSON input")
       ELSE IF ~created
       THEN /\ modal' = [modal EXCEPT !.created = @ + 1,
                             !.error = "onCreate failed",
                             !.isSubmitting = FALSE, !.pc = "idle"]
            /\ UNCHANGED ModalIdle
       ELSE /\ modal' = [modal EXCEPT !.created = @ + 1, !.closed = @ + 1,
                             !.formData = InitialFormData,
                             !.imagePreview = FALSE,
                             !.isSubmitting = FALSE, !.pc = "idle"]
            /\ UNCHANGED ModalIdle

\* what the user types and picks
FormNames == {"", " ", "n1", " n1 "}
FormPrices == {"", "0", "5"}
FormStocks == {"", "-2", "0"}
FormCategoryIds == {"", "c1"}
FormFiles == {SmallImage, LargeImage, TextFile}

\* messages of the server's error responses; "" is a body without message
ErrorMessages == {"", "Missing required fields", "Unexpected token"}

ModalNext ==
    \/ \E value \in FormNames : HandleChange("name", value)
    \/ \E value \in FormPrices : HandleChange("price", value)
    \/ \E value \in FormStocks : HandleChange("stockQuantity", value)
    \/ \E value \in FormCategoryIds : HandleChange("categoryId", value)
    \/ \E file \in FormFiles : HandleImageChange(file)
    \/ HandleSubmit
    \/ \E outcome \in {"rejects", "ok", "notOk"} : HandleSubmitFetched(outcome)
    \/ \E message \in ErrorMessages : HandleSubmitErrorData(message)
    \/ \E parsed, created \in BOOLEAN : HandleSubmitData(parsed, created)

ModalSpec == Init /\ [][ModalNext]_vars

\* handleSubmit is between its fetch and its end
InFlight(m) == m.pc # "idle"

\* C19: handleSubmit sends a request only for a form that validateForm
\* accepts; isSubmitting is true exactly while the request is in flight and
\* false once handleSubmit has finished, on the success and on the failure
\* path; onCreate, onClose and the form reset happen only in the step
\* that follows a successful response; when the request fails the error is
\* set and the form data is as entered.
C19_HandleSubmit ==
    [][/\ modal'.fetches # modal.fetches
            => /\ Trim(modal.formData.name) # ""
               /\ modal.formData.price \notin {"", "0"}
               /\ modal.formData.stockQuantity \notin {"", "-2"}
               /\ modal.formData.categoryId # ""
               /\ modal'.isSubmitting
       /\ (modal.pc = "idle" /\ modal'.fetches = modal.fetches)
            => modal'.pc = "idle"
       /\ InFlight(modal') <=> modal'.isSubmitting
       /\ (modal'.created # modal.created \/ modal'.closed # modal.closed
                \/ (modal'.pc # modal.pc /\ modal'.formData # modal.formData))
            => modal.pc = "ok"
       /\ (InFlight(modal) /\ ~InFlight(modal') /\ modal'.closed = modal.closed)
            => /\ modal'.error # ""
               /\ modal'.formData = modal.formData
               /\ ~modal'.isSubmitting
       /\ (InFlight(modal) /\ ~InFlight(modal') /\ modal'.closed # modal.closed)
            => /\ modal'.formData = InitialFormData
               /\ ~modal'.isSubmitting]_vars

\* a request failed after an earlier one succeeded; the form holds what was
\* entered and shows the server's message
C19_Witness ==
    /\ modal.closed = 1 /\ modal.fetches = 2 /\ modal.pc = "idle"
    /\ modal.error = "Missing required fields"
    /\ modal.formData.name = "n1"
====
